---- MODULE Spec2Model ----
(***************************************************************************)
(* win32_notification: a builder for a NOTIFYICONDATAW descriptor, the     *)
(* fixed-capacity wide-string encoder that fills its text fields, and the  *)
(* Notification handle whose show()/delete() wrap Shell_NotifyIconW.       *)
(*                                                                         *)
(* Three specifications share the variables:                               *)
(*   SpecEnc   the encoder macro applied once to an input text,            *)
(*   Spec      one builder/notification through its life, single thread,   *)
(*   SpecConc  two threads operating on one handle's RefCell.              *)
(***************************************************************************)
EXTENDS Integers, Sequences, FiniteSets, TLC

VARIABLES
    encText,    \* SpecEnc: the &str handed to encode_string_wide!, as chars
    encCap,     \* SpecEnc: $length of the invocation (0 before the call)
    encArray,   \* SpecEnc: the array the macro evaluates to
    phase,      \* Spec: "start", "new_failed", "builder", "notification",
                \*       "consumed", "panicked"
    desc,       \* Spec: the NOTIFYICONDATAW owned by the builder / handle
    registry,   \* Spec: identifiers the shell currently has an icon for
    lastError,  \* Spec: the thread's GetLastError() value (u32)
    ret,        \* Spec: what the most recent call returned
    hist,       \* Spec: history of calls, for stating the properties
    pc,         \* SpecConc: per thread, position inside show()/delete()
    seen,       \* SpecConc: per thread, the borrow flag value it read
    borrow,     \* SpecConc: RefCell borrow flag (0 unused, -1 mutably borrowed)
    conc        \* SpecConc: history of the threads' calls

encVars  == <<encText, encCap, encArray>>
lifeVars == <<phase, desc, registry, lastError, ret, hist>>
concVars == <<pc, seen, borrow, conc>>
vars     == <<encText, encCap, encArray, phase, desc, registry, lastError,
              ret, hist, pc, seen, borrow, conc>>

---------------------------------------------------------------------------
(* Program constants *)

INFO_BUFFER_LEN == 256

TITLE_BUFFER_LEN == 64

\* the literal of `.take(64)` in the macro
TAKE_LIMIT == 64

\* $length of the two invocations in tests::test_encode_string_wide
TEST_BUFFER_LEN == 12

(* Bounds of the model *)

\* identifiers CoCreateGuid may produce: 1..NumGuids
NumGuids == 2

\* show() calls made on one handle
MaxShows == 3

\* show()/delete() calls the two threads begin in total
MaxCalls == 3

\* input lengths lie within Slack chars of 0 and of each capacity
Slack == 2

---------------------------------------------------------------------------
(* Text: a &str is a sequence of Unicode scalar values *)

\* chars that matter to the encoder besides letters: U+1F600, outside the BMP
\* (two code units in the wide encoding), and U+0000
SpecialChars == {128512, 0}

Min(a, b) == IF a <= b THEN a ELSE b

Filler(i) == 97 + (i % 26)

\* n chars, distinct by position, with char c at position k (k = 0: nowhere)
Text(n, k, c) == [i \in 1..n |-> IF i = k THEN c ELSE Filler(i)]

Capacities == {TEST_BUFFER_LEN, TITLE_BUFFER_LEN, INFO_BUFFER_LEN}

Lengths == {n \in 0..(INFO_BUFFER_LEN + Slack) :
              \E b \in Capacities \cup {0} : n >= b - Slack /\ n <= b + Slack}

SpecialAt == {0} \cup {b + d : b \in Capacities, d \in {-1, 0, 1}}

Texts == UNION {{Text(n, k, c) : k \in {j \in SpecialAt : j <= n},
                                  c \in SpecialChars} : n \in Lengths}

\* char -> UTF-16 code units; EncodeWide is OsStr::encode_wide on a valid
\* &str: the chars' code units in order
CharUnits(c) ==
    IF c < 65536 THEN <<c>>
    ELSE <<55296 + ((c - 65536) \div 1024), 56320 + ((c - 65536) % 1024)>>

RECURSIVE EncodeWide(_)
EncodeWide(s) ==
    IF Len(s) = 0 THEN <<>>
    ELSE IF Len(s) = 1 THEN CharUnits(s[1])
    ELSE LET half == Len(s) \div 2
         IN  EncodeWide(SubSeq(s, 1, half)) \o EncodeWide(SubSeq(s, half + 1, Len(s)))

\* Iterator::take(n)
Take(s, n) == SubSeq(s, 1, Min(Len(s), n))

\* encode_string_wide!($string, $length)
EncodeStringWide(string, length) ==
    LET codepoints == Take(EncodeWide(string), TAKE_LIMIT)
        count      == Min(Len(codepoints), length)
    IN  [i \in 1..length |-> IF i <= count THEN codepoints[i] ELSE 0]

Zeros(n) == [i \in 1..n |-> 0]

\* the decoding the properties speak of: drop the trailing zero code units
TrimTrailingZeros(buf) ==
    LET used == {i \in 1..Len(buf) : buf[i] # 0}
        last == IF used = {} THEN 0 ELSE CHOOSE i \in used : \A j \in used : j <= i
    IN  SubSeq(buf, 1, last)

\* OsString::from_wide(..).into_string() is Ok iff the units are well-formed
\* UTF-16: every high surrogate is followed by a low one and vice versa
IsHigh(u) == u >= 55296 /\ u <= 56319

IsLow(u) == u >= 56320 /\ u <= 57343

IntoStringOk(buf) ==
    \A i \in 1..Len(buf) :
        /\ IsHigh(buf[i]) => (i < Len(buf) /\ IsLow(buf[i + 1]))
        /\ IsLow(buf[i]) => (i > 1 /\ IsHigh(buf[i - 1]))

---------------------------------------------------------------------------
(* Values shared by the specifications *)

\* winerror::S_OK, the status generate_guid compares against
S_OK == 0

\* NOTIFYICONDATAW { ..Default::default() }
DefaultDescriptor ==
    [uFlags |-> {}, guidItem |-> 0,
     szInfo |-> Zeros(INFO_BUFFER_LEN), szInfoTitle |-> Zeros(TITLE_BUFFER_LEN)]

NoRet == [op |-> "none", ok |-> TRUE, code |-> 0]

\* title, info: the argument of the latest setter call, if any; status, guid:
\* what CoCreateGuid returned; built: the descriptor build() was given;
\* calls: the Shell_NotifyIconW calls made and what show/delete returned
NoHist == [title |-> <<>>, info |-> <<>>, status |-> <<>>, guid |-> 0,
           guidCalls |-> 0, built |-> <<>>, calls |-> <<>>, fmt |-> FALSE]

Threads == {1, 2}

\* started: calls begun so far; op: the call each thread is in; native: the
\* Shell_NotifyIconW calls each thread has completed; overlapped: some call
\* began while another thread's call was in progress
NoConc == [started |-> 0, op |-> [t \in Threads |-> "none"],
           native |-> [t \in Threads |-> 0], overlapped |-> FALSE]

EncIdle == encText = <<>> /\ encCap = 0 /\ encArray = <<>>

LifeIdle ==
    /\ phase = "start"
    /\ desc = DefaultDescriptor
    /\ registry = {}
    /\ lastError = [hi |-> 0, lo |-> 0]
    /\ ret = NoRet
    /\ hist = NoHist

ConcIdle ==
    /\ pc = [t \in Threads |-> "idle"]
    /\ seen = [t \in Threads |-> 0]
    /\ borrow = 0
    /\ conc = NoConc

---------------------------------------------------------------------------
(* SpecEnc: one invocation of encode_string_wide! on an input text *)

InitEnc ==
    /\ encText \in Texts
    /\ encCap = 0
    /\ encArray = <<>>
    /\ LifeIdle
    /\ ConcIdle

Encode(length) ==
    /\ encCap = 0
    /\ encCap' = length
    /\ encArray' = EncodeStringWide(encText, length)
    /\ UNCHANGED <<encText, lifeVars, concVars>>

\* encode_string_wide!(text, 12) in tests::test_encode_string_wide
EncodeTest == Encode(TEST_BUFFER_LEN)

\* encode_string_wide!(text, TITLE_BUFFER_LEN) in title_text
EncodeTitle == Encode(TITLE_BUFFER_LEN)

\* encode_string_wide!(text, INFO_BUFFER_LEN) in info_text
EncodeInfo == Encode(INFO_BUFFER_LEN)

NextEnc == EncodeTest \/ EncodeTitle \/ EncodeInfo

SpecEnc == InitEnc /\ [][NextEnc]_vars

\* C1: an input whose wide encoding is longer than the capacity leaves exactly
\* its first `capacity` code units in the buffer (capacities 12, 64 and 256).
C1_TruncatesToCapacity ==
    (encCap # 0 /\ Len(EncodeWide(encText)) > encCap)
        => encArray = SubSeq(EncodeWide(encText), 1, encCap)

\* C2: an input without a zero code unit whose wide encoding fits the capacity
\* is recovered exactly by trimming the buffer's trailing zeros, and the
\* buffer has `capacity` code units (all zero for the empty string).
C2_RoundTrip ==
    (/\ encCap \in {TITLE_BUFFER_LEN, INFO_BUFFER_LEN}
     /\ Len(EncodeWide(encText)) <= encCap
     /\ \A i \in 1..Len(encText) : encText[i] # 0)
        => /\ Len(encArray) = encCap
           /\ TrimTrailingZeros(encArray) = EncodeWide(encText)

---------------------------------------------------------------------------
(* Spec: one builder and its notification, driven by a single thread *)

\* HRESULTs CoCreateGuid may return (i32): S_OK, S_FALSE, E_FAIL
HResults == {S_OK, 1, -2147467259}

Guids == 1..NumGuids

\* a u32 as its two 16-bit halves (TLC's integers are 32-bit signed)
DWord(hi, lo) == [hi |-> hi, lo |-> lo]

\* values GetLastError() may hold after a failed call (u32): 0,
\* ERROR_ACCESS_DENIED (5) and 0x80004005
ErrCodes == {DWord(0, 0), DWord(0, 5), DWord(32768, 16389)}

\* `last_err as i32`: the same 32 bits read as two's complement
AsI32(x) == (IF x.hi >= 32768 THEN x.hi - 65536 ELSE x.hi) * 65536 + x.lo

ArgTexts ==
    {Text(0, 0, 0),
     Text(TEST_BUFFER_LEN, 0, 0),
     Text(TITLE_BUFFER_LEN, TITLE_BUFFER_LEN, 128512),
     Text(TITLE_BUFFER_LEN + Slack, 0, 0),
     Text(INFO_BUFFER_LEN + Slack, 0, 0)}

Ok(op) == [op |-> op, ok |-> TRUE, code |-> 0]

Err(op, code) == [op |-> op, ok |-> FALSE, code |-> code]

\* a generate_guid that tests SUCCEEDED(result) instead of result == S_OK
GenerateGuidLax(result, gen_guid) ==
    IF result >= 0 THEN [ok |-> TRUE, guid |-> gen_guid, code |-> 0]
    ELSE [ok |-> FALSE, guid |-> 0, code |-> result]

\* generate_guid: Ok(gen_guid) iff CoCreateGuid reported S_OK, else Err(result)
GenerateGuid(result, gen_guid) ==
    IF result = S_OK THEN [ok |-> TRUE, guid |-> gen_guid, code |-> 0]
    ELSE [ok |-> FALSE, guid |-> 0, code |-> result]

\* the struct literal of new()
NewDescriptor(guid) ==
    [DefaultDescriptor EXCEPT !.uFlags = {"NIF_INFO"} \cup {"NIF_GUID"},
                              !.guidItem = guid]

\* NotificationBuilder::new
New ==
    /\ phase = "start"
    /\ \E result \in HResults, gen_guid \in Guids :
         LET g == GenerateGuid(result, gen_guid) IN
         /\ hist' = [hist EXCEPT !.status = <<result>>,
                                 !.guid = gen_guid,
                                 !.guidCalls = @ + 1]
         /\ IF g.ok
            THEN /\ phase' = "builder"
                 /\ desc' = NewDescriptor(g.guid)
                 /\ ret' = Ok("new")
            ELSE /\ phase' = "new_failed"
                 /\ desc' = desc
                 /\ ret' = Err("new", g.code)
    /\ UNCHANGED <<registry, lastError, encVars, concVars>>

\* the descriptor after info_text(text)
SetInfo(d, text) == [d EXCEPT !.szInfo = EncodeStringWide(text, INFO_BUFFER_LEN)]

\* a title_text that rebuilds the descriptor from Default::default()
SetTitleFresh(d, text) ==
    [DefaultDescriptor EXCEPT
        !.uFlags = d.uFlags,
        !.szInfo = d.szInfo,
        !.szInfoTitle = EncodeStringWide(text, TITLE_BUFFER_LEN)]

\* the descriptor after title_text(text)
SetTitle(d, text) ==
    [d EXCEPT !.szInfoTitle = EncodeStringWide(text, TITLE_BUFFER_LEN)]

\* NotificationBuilder::info_text
InfoText ==
    /\ phase = "builder"
    /\ \E text \in ArgTexts :
         /\ desc' = SetInfo(desc, text)
         /\ hist' = [hist EXCEPT !.info = <<text>>]
    /\ ret' = Ok("info_text")
    /\ UNCHANGED <<phase, registry, lastError, encVars, concVars>>

\* NotificationBuilder::title_text
TitleText ==
    /\ phase = "builder"
    /\ \E text \in ArgTexts :
         /\ desc' = SetTitle(desc, text)
         /\ hist' = [hist EXCEPT !.title = <<text>>]
    /\ ret' = Ok("title_text")
    /\ UNCHANGED <<phase, registry, lastError, encVars, concVars>>

\* NotificationBuilder::build: the descriptor moves into the Notification
Build ==
    /\ phase = "builder"
    /\ phase' = "notification"
    /\ hist' = [hist EXCEPT !.built = <<desc>>]
    /\ ret' = Ok("build")
    /\ UNCHANGED <<desc, registry, lastError, encVars, concVars>>

\* Shell_NotifyIconW(message, &mut descriptor) != 0: the shell adds an icon
\* for an identifier it does not have yet and deletes one it has; `up` is
\* every other reason the shell may refuse
ShellNotifyIcon(message, d, reg, up) ==
    IF message = "NIM_ADD" THEN up /\ d.guidItem \notin reg
    ELSE up /\ d.guidItem \in reg

ShellRegistry(message, d, reg, success) ==
    IF ~success THEN reg
    ELSE IF message = "NIM_ADD" THEN reg \cup {d.guidItem}
    ELSE reg \ {d.guidItem}

\* a show() that drops the failure branch
ShowResultIgnored(success, last_err) == Ok("show")

\* the tail of show(): Err(GetLastError() as i32) unless the call succeeded
ShowResult(success, last_err) ==
    IF ~success THEN Err("show", AsI32(last_err)) ELSE Ok("show")

\* a delete() that reports Ok whatever the shell answered
DeleteResultIgnored(success, last_err) == Ok("delete")

\* the tail of delete()
DeleteResult(success, last_err) ==
    IF ~success THEN Err("delete", AsI32(last_err)) ELSE Ok("delete")

\* a delete(&self) that leaves the handle usable
AfterDeleteBorrowed == "notification"

\* delete(self) takes the handle by value: no handle is left afterwards
AfterDelete == "consumed"

Called(message, r) ==
    Append(hist.calls, [msg |-> message, guid |-> desc.guidItem,
                        ok |-> r.ok, code |-> r.code])

NumShows == Cardinality({i \in 1..Len(hist.calls) : hist.calls[i].msg = "NIM_ADD"})

\* Notification::show
Show ==
    /\ phase = "notification"
    /\ NumShows < MaxShows
    /\ \E up \in BOOLEAN, err \in ErrCodes :
         LET success == ShellNotifyIcon("NIM_ADD", desc, registry, up)
             last    == IF success THEN lastError ELSE err
             r       == ShowResult(success, last)
         IN  /\ registry' = ShellRegistry("NIM_ADD", desc, registry, success)
             /\ lastError' = last
             /\ ret' = r
             /\ hist' = [hist EXCEPT !.calls = Called("NIM_ADD", r)]
    /\ UNCHANGED <<phase, desc, encVars, concVars>>

\* Notification::delete
Delete ==
    /\ phase = "notification"
    /\ \E up \in BOOLEAN, err \in ErrCodes :
         LET success == ShellNotifyIcon("NIM_DELETE", desc, registry, up)
             last    == IF success THEN lastError ELSE err
             r       == DeleteResult(success, last)
         IN  /\ registry' = ShellRegistry("NIM_DELETE", desc, registry, success)
             /\ lastError' = last
             /\ ret' = r
             /\ hist' = [hist EXCEPT !.calls = Called("NIM_DELETE", r)]
    /\ phase' = AfterDelete
    /\ UNCHANGED <<desc, encVars, concVars>>

\* <Notification as fmt::Debug>::fmt: szInfo, then szInfoTitle, go through
\* OsString::from_wide(..).into_string().unwrap()
DebugFmt ==
    /\ phase = "notification"
    /\ IF IntoStringOk(desc.szInfo) /\ IntoStringOk(desc.szInfoTitle)
       THEN /\ phase' = phase
            /\ hist' = [hist EXCEPT !.fmt = TRUE]
            /\ ret' = Ok("fmt")
       ELSE /\ phase' = "panicked"
            /\ hist' = hist
            /\ ret' = ret
    /\ UNCHANGED <<desc, registry, lastError, encVars, concVars>>

Init == EncIdle /\ LifeIdle /\ ConcIdle

Next == New \/ InfoText \/ TitleText \/ Build \/ Show \/ Delete \/ DebugFmt

Spec == Init /\ [][Next]_vars

---------------------------------------------------------------------------
(* Properties of Spec *)

Calls == hist.calls

IsShow(i) == Calls[i].msg = "NIM_ADD"

IsDelete(i) == Calls[i].msg = "NIM_DELETE"

\* C3: a handle is deleted at most once and nothing is done with it after its
\* delete, whatever that delete returned.
C3_DeleteConsumes ==
    \A i \in 1..Len(Calls) : IsDelete(i) => i = Len(Calls)

C3_Witness ==
    /\ phase = "consumed"
    /\ Len(Calls) >= 2
    /\ IsShow(1)
    /\ ~Calls[Len(Calls)].ok

\* C4: delete() on a handle no show() of which has succeeded still makes the
\* platform's delete call and returns Err with the last-error code.
C4_DeleteNeverShown ==
    (ret.op = "delete" /\ \A i \in 1..Len(Calls) : IsShow(i) => ~Calls[i].ok)
        => /\ Len(Calls) >= 1
           /\ IsDelete(Len(Calls))
           /\ Calls[Len(Calls)].guid = desc.guidItem
           /\ ret = Err("delete", AsI32(lastError))

C4_Witness ==
    /\ ret.op = "delete"
    /\ Len(Calls) = 1
    /\ ret.code < 0

\* C5: after a show() that returned Ok every later show() on the handle
\* returns Err, and the handle's descriptor is as build() made it.
C5_ShowTwiceFails ==
    /\ \A i, j \in 1..Len(Calls) :
          (i < j /\ IsShow(i) /\ Calls[i].ok /\ IsShow(j)) => ~Calls[j].ok
    /\ phase = "notification" => hist.built = <<desc>>

C5_Witness ==
    /\ Len(Calls) = 2
    /\ IsShow(1) /\ Calls[1].ok
    /\ IsShow(2) /\ ~Calls[2].ok
    /\ hist.built = <<desc>>

\* C6: new() fails exactly when CoCreateGuid does not return S_OK, with that
\* status as the error, without a builder and after a single attempt;
\* otherwise the new builder has the flags NIF_INFO and NIF_GUID and zeroed
\* text buffers.
C6_NewFailsOnlyOnGuid ==
    phase # "start" =>
        /\ hist.guidCalls = 1
        /\ (phase = "new_failed") <=> (hist.status # <<S_OK>>)
        /\ phase = "new_failed" =>
              /\ ret = Err("new", hist.status[1])
              /\ desc = DefaultDescriptor
        /\ ret = Ok("new") =>
              /\ phase = "builder"
              /\ desc.uFlags = {"NIF_INFO", "NIF_GUID"}
              /\ desc.szInfo = Zeros(INFO_BUFFER_LEN)
              /\ desc.szInfoTitle = Zeros(TITLE_BUFFER_LEN)

C6_Witness ==
    /\ phase = "new_failed"
    /\ hist.status = <<1>>
    /\ ret = Err("new", 1)

\* C7: the descriptor's identifier is the one CoCreateGuid produced for
\* new(), in the builder and in the notification, and every platform call
\* made by show() and delete() passes it.
C7_IdentifierFixed ==
    phase \in {"builder", "notification", "consumed", "panicked"} =>
        /\ desc.guidItem = hist.guid
        /\ \A i \in 1..Len(Calls) : Calls[i].guid = hist.guid

C7_Witness ==
    /\ phase = "consumed"
    /\ hist.title # <<>>
    /\ hist.info # <<>>
    /\ \E i \in 1..Len(Calls) : IsShow(i)
    /\ desc.guidItem = NumGuids

\* the Text Encoder of the specification: the first `capacity` code units of
\* the text's wide encoding, zero-filled to `capacity`
WideBuffer(text, capacity) ==
    LET units == EncodeWide(text)
    IN  [i \in 1..capacity |->
            IF i <= Len(units) THEN units[i] ELSE 0]

LatestBuffer(arg, capacity) ==
    IF arg = <<>> THEN Zeros(capacity) ELSE WideBuffer(arg[1], capacity)

\* C9: in the builder and in the notification built from it, the title buffer
\* is the encoding of the latest title_text argument alone and the body buffer
\* the encoding of the latest info_text argument alone (zeros if never set).
C9_LatestTextAlone ==
    phase \in {"builder", "notification"} =>
        /\ desc.szInfoTitle = LatestBuffer(hist.title, TITLE_BUFFER_LEN)
        /\ desc.szInfo = LatestBuffer(hist.info, INFO_BUFFER_LEN)

\* C10: Debug-formatting a Notification never panics.
C10_DebugNeverPanics == phase # "panicked"

---------------------------------------------------------------------------
(* SpecConc: two threads hold the same Notification and call show()/delete() *)
(* on it.  The descriptor sits in a RefCell: borrow_mut() reads the borrow   *)
(* flag and, finding it unused, writes it; neither access is atomic, so the  *)
(* threads' steps interleave freely.                                         *)

Busy(t) == pc[t] \in {"borrow_read", "borrow_check", "native", "release"}

\* entry of show(&self) / delete(self); once a delete has returned the
\* Notification is gone for every thread
Call(t, op) ==
    /\ pc[t] = "idle"
    /\ \A u \in Threads : pc[u] # "gone"
    /\ conc.started < MaxCalls
    /\ pc' = [pc EXCEPT ![t] = "borrow_read"]
    /\ conc' = [conc EXCEPT
                  !.started = @ + 1,
                  !.op[t] = op,
                  !.overlapped = @ \/ \E u \in Threads \ {t} : Busy(u)]
    /\ UNCHANGED <<seen, borrow, encVars, lifeVars>>

CallShow(t) == Call(t, "show")

CallDelete(t) == Call(t, "delete")

\* self.0.borrow_mut(), first half: read the flag
BorrowRead(t) ==
    /\ pc[t] = "borrow_read"
    /\ seen' = [seen EXCEPT ![t] = borrow]
    /\ pc' = [pc EXCEPT ![t] = "borrow_check"]
    /\ UNCHANGED <<borrow, conc, encVars, lifeVars>>

\* self.0.borrow_mut(), second half: an unused cell is marked mutably
\* borrowed; any other value is a BorrowMutError and borrow_mut panics
BorrowCheck(t) ==
    /\ pc[t] = "borrow_check"
    /\ IF seen[t] = 0
       THEN /\ borrow' = -1
            /\ pc' = [pc EXCEPT ![t] = "native"]
       ELSE /\ borrow' = borrow
            /\ pc' = [pc EXCEPT ![t] = "panicked"]
    /\ UNCHANGED <<seen, conc, encVars, lifeVars>>

\* Shell_NotifyIconW(.., &mut *descriptor) returns
NativeReturn(t) ==
    /\ pc[t] = "native"
    /\ pc' = [pc EXCEPT ![t] = "release"]
    /\ conc' = [conc EXCEPT !.native[t] = @ + 1]
    /\ UNCHANGED <<seen, borrow, encVars, lifeVars>>

\* a guard that is never dropped (mem::forget, a leaked RefMut)
DropGuardLeaked(flag) == flag

\* the RefMut guard `descriptor` goes out of scope: the flag is given back
DropGuard(flag) == flag + 1

\* show()/delete() returns; delete(self) leaves its caller without a handle
Return(t) ==
    /\ pc[t] = "release"
    /\ borrow' = DropGuard(borrow)
    /\ pc' = [pc EXCEPT ![t] = IF conc.op[t] = "delete" THEN "gone" ELSE "idle"]
    /\ UNCHANGED <<seen, conc, encVars, lifeVars>>

NextConc ==
    \E t \in Threads :
        \/ CallShow(t)
        \/ CallDelete(t)
        \/ BorrowRead(t)
        \/ BorrowCheck(t)
        \/ NativeReturn(t)
        \/ Return(t)

SpecConc == Init /\ [][NextConc]_vars

====
